---- MODULE Spec2Model ----
(***************************************************************************)
(* A model of clad's Command (src/mod.ts): the constructor that normalises *)
(* an argument schema into the internal table, and parse(), which          *)
(* preprocesses the raw tokens, matches them against the table, validates  *)
(* the table and projects it into the returned ArgMatches.                 *)
(*                                                                         *)
(* A JavaScript string is a sequence of one-character strings, so that     *)
(* startsWith, substring and indexOf are computed as the code computes     *)
(* them.  An optional value (undefined | x) is a sequence of length 0 or 1.*)
(***************************************************************************)
EXTENDS Integers, Sequences, FiniteSets, TLC

VARIABLES
    schema,        \* index of the Args object handed to the constructor
    args,          \* Command.#args: the table of ArgState, in authoring order
    fresh,         \* Command.#fresh
    throwOnError,  \* Command.#throwOnError
    rawArgv,       \* the argv handed to the parse call in progress
    didReset,      \* the parse call in progress took the #reset branch of line 359
    argv,          \* parse's local argv after #preprocess
    pos,           \* parse's loop index into argv (0-based, as in the code)
    passthru,      \* parse is inside the loop that follows a "--" token
    vi,            \* index (1-based) of the argument the validation loop is at
    pc,            \* "new" | "schemaError" | "ready" | "match" | "validate" | "build" | "exited"
    outcome        \* what the last finished parse call gave its caller

vars == <<schema, args, fresh, throwOnError, rawArgv, didReset, argv, pos, passthru, vi, pc, outcome>>

----------------------------------------------------------------------------
(* Bounds *)

\* the longest raw token list handed to parse
MaxArgv == 3

----------------------------------------------------------------------------
(* JavaScript string helpers *)

StartsWith(s, p) == Len(s) >= Len(p) /\ SubSeq(s, 1, Len(p)) = p

\* s.substring(i), i counted from 0
Substring(s, i) == SubSeq(s, i + 1, Len(s))

\* s.substring(0, j)
Prefix(s, j) == SubSeq(s, 1, j)

\* s.indexOf(c): the 0-based index of the first c, or -1
IndexOf(s, c) ==
    IF \E i \in 1..Len(s) : s[i] = c
    THEN (CHOOSE i \in 1..Len(s) : s[i] = c /\ \A j \in 1..(i - 1) : s[j] # c) - 1
    ELSE -1

\* c.toUpperCase() on the letters the schemas use
UpperChar(c) ==
    CASE c = "x" -> "X"
      [] c = "y" -> "Y"
      [] c = "v" -> "V"
      [] c = "w" -> "W"
      [] OTHER -> c

ToUpperCase(s) == [i \in 1..Len(s) |-> UpperChar(s[i])]

\* s.replace(/^\-+/, "")
RECURSIVE StripHyphens(_)
StripHyphens(s) ==
    IF s # <<>> /\ s[1] = "-" THEN StripHyphens(Substring(s, 1)) ELSE s

\* xs.includes(x)
Includes(xs, x) == \E i \in 1..Len(xs) : xs[i] = x

\* xs.filter(p) for the two filters the code uses on flags
ShortsOf(flags) == SelectSeq(flags, LAMBDA x : Len(x) = 1)
LongsOf(flags) == SelectSeq(flags, LAMBDA x : Len(x) > 1)

----------------------------------------------------------------------------
(* The Arg interface: what the caller authors.                             *)
(* validate is <<>> (undefined) or <<S>>, S the set of values the callback *)
(* accepts; default is <<>> or <<value>>.                                  *)

Arg(key) ==
    [ key |-> key, flags |-> <<>>, takesValue |-> FALSE, multi |-> FALSE,
      required |-> FALSE, default |-> <<>>, validate |-> <<>>,
      possible |-> <<>>, ignoreCase |-> FALSE,
      conflicts |-> <<>>, requires |-> <<>> ]

HasKey(raw, k) == \E i \in 1..Len(raw) : raw[i].key = k

\* the properties an object literal inherits from Object.prototype
ObjectPrototype ==
    {"constructor", "hasOwnProperty", "isPrototypeOf", "propertyIsEnumerable",
     "toLocaleString", "toString", "valueOf", "__proto__", "__defineGetter__",
     "__defineSetter__", "__lookupGetter__", "__lookupSetter__"}

\* args[k] is truthy (lines 110, 117): an Arg of the schema or an inherited
\* property
HasProperty(raw, k) == HasKey(raw, k) \/ k \in ObjectPrototype
IndexOfKey(raw, k) == CHOOSE i \in 1..Len(raw) : raw[i].key = k

----------------------------------------------------------------------------
(* Command.constructor *)

\* the validate field after lines 97-108: the generated membership check
\* replaces the caller's validate when possible is non-empty
\* NormValidate where possible replaces only a missing validate
NormValidateKeepsCustom(v) ==
    IF v.validate # <<>>
    THEN [kind |-> "custom", accept |-> v.validate[1]]
    ELSE IF Len(v.possible) > 0
         THEN [kind |-> "possible", accept |-> {}]
         ELSE [kind |-> "undefined", accept |-> {}]

\* validate after lines 97-108
NormValidate(v) ==
    IF Len(v.possible) > 0
    THEN [kind |-> "possible", accept |-> {}]
    ELSE IF v.validate # <<>>
         THEN [kind |-> "custom", accept |-> v.validate[1]]
         ELSE [kind |-> "undefined", accept |-> {}]

\* the first schema error of the conflicts loop, "" when there is none
RECURSIVE ConflictsCheck(_, _, _)
ConflictsCheck(raw, v, j) ==
    IF j > Len(v.conflicts) THEN ""
    ELSE IF ~HasProperty(raw, v.conflicts[j]) THEN "conflict with a non-existing argument"
    ELSE IF v.conflicts[j] = v.key THEN "conflict with itself"
    ELSE ConflictsCheck(raw, v, j + 1)

\* the first schema error of the requires loop, "" when there is none
RECURSIVE RequiresCheck(_, _, _)
RequiresCheck(raw, v, j) ==
    IF j > Len(v.requires) THEN ""
    ELSE IF ~HasProperty(raw, v.requires[j]) THEN "non-existing argument as required"
    ELSE IF v.requires[j] = v.key THEN "requirement for itself"
    ELSE RequiresCheck(raw, v, j + 1)

\* required after lines 124-127
\* NormRequired without line 125
NormRequiredKept(v) == v.required

NormRequired(v) == IF v.default # <<>> THEN FALSE ELSE v.required

\* takesValue after lines 97-127, before it is or-ed with isPositional
NormTakesValue(v) ==
    v.takesValue \/ Len(v.possible) > 0 \/ v.validate # <<>> \/ v.default # <<>>

NormFlags(v) == [i \in 1..Len(v.flags) |-> StripHyphens(v.flags[i])]

\* the display name, a concatenation of pieces
ArgName(v) ==
    LET flags == NormFlags(v)
        shorts == ShortsOf(flags)
        longs == LongsOf(flags)
        dots == IF v.multi THEN <<"...">> ELSE <<>>
        value == IF NormTakesValue(v) THEN <<" <", v.key>> \o dots \o <<">">> ELSE <<>>
    IN  IF Len(flags) # 0
        THEN (IF Len(shorts) > 0 /\ Len(longs) > 0
              THEN <<"-">> \o shorts[1] \o <<" --">> \o longs[1]
              ELSE IF Len(shorts) > 0 THEN <<"-">> \o shorts[1]
              ELSE <<"--">> \o longs[1]) \o value
        ELSE <<"<", v.key>> \o dots \o <<">">>

\* the ArgState the constructor stores for one Arg
ArgState(v) ==
    LET isPositional == Len(v.flags) = 0
    IN  [ key |-> v.key,
          flags |-> NormFlags(v),
          takesValue |-> NormTakesValue(v) \/ isPositional,
          multi |-> v.multi,
          required |-> NormRequired(v),
          default |-> v.default,
          validate |-> NormValidate(v),
          possible |-> v.possible,
          ignoreCase |-> v.ignoreCase,
          conflicts |-> v.conflicts,
          requires |-> v.requires,
          name |-> ArgName(v),
          isPositional |-> isPositional,
          occurrences |-> 0,
          vals |-> <<>> ]

\* the schema error thrown while processing one Arg, "" when there is none
ArgError(raw, v) ==
    LET flags == NormFlags(v)
    IN  IF ConflictsCheck(raw, v, 1) # "" THEN ConflictsCheck(raw, v, 1)
        ELSE IF RequiresCheck(raw, v, 1) # "" THEN RequiresCheck(raw, v, 1)
        ELSE IF Len(flags) # 0 /\ Len(ShortsOf(flags)) = 0 /\ Len(LongsOf(flags)) = 0
             THEN "contains an empty flag"
        ELSE ""

\* line 165 where index 0 reads as "none yet"
MultiNotLastFromSecond(lastPositional, firstMultiPositional) ==
    firstMultiPositional > 0 /\ firstMultiPositional < lastPositional

\* line 165: a multi positional comes before the last positional
MultiNotLast(lastPositional, firstMultiPositional) ==
    firstMultiPositional >= 0 /\ firstMultiPositional < lastPositional

\* the constructor's loop from entry i on (i counted from 1; lastPositional
\* and firstMultiPositional hold the code's 0-based indices)
RECURSIVE ConstructFrom(_, _, _, _, _)
ConstructFrom(raw, i, table, lastPositional, firstMultiPositional) ==
    IF i > Len(raw)
    THEN IF MultiNotLast(lastPositional, firstMultiPositional)
         THEN [ok |-> FALSE, table |-> <<>>,
               err |-> "positionals with multiple values are only allowed as the last positional"]
         ELSE [ok |-> TRUE, table |-> table, err |-> ""]
    ELSE LET v == raw[i]
             isPositional == Len(v.flags) = 0
         IN  IF ArgError(raw, v) # ""
             THEN [ok |-> FALSE, table |-> <<>>, err |-> ArgError(raw, v)]
             ELSE ConstructFrom(raw, i + 1, Append(table, ArgState(v)),
                      IF isPositional THEN i - 1 ELSE lastPositional,
                      IF isPositional /\ v.multi /\ firstMultiPositional < 0
                      THEN i - 1 ELSE firstMultiPositional)

Construct(raw) == ConstructFrom(raw, 1, <<>>, -1, -1)

----------------------------------------------------------------------------
(* The validate callback of a table entry: <<>> when the value is accepted *)
(* (the callback returns undefined), else <<message>>.                     *)

PossibleAccepts(flag, s) ==
    LET sx == IF flag.ignoreCase THEN ToUpperCase(s) ELSE s
    IN  \E i \in 1..Len(flag.possible) :
            sx = (IF flag.ignoreCase THEN ToUpperCase(flag.possible[i]) ELSE flag.possible[i])

Validate(flag, s) ==
    CASE flag.validate.kind = "possible" ->
            IF PossibleAccepts(flag, s) THEN <<>> ELSE <<"value must be one of">>
      [] flag.validate.kind = "custom" ->
            IF s \in flag.validate.accept THEN <<>> ELSE <<"rejected by validate">>
      [] OTHER -> <<>>

----------------------------------------------------------------------------
(* Command.#shorts, Command.#longs: alias -> takesValue.  A later entry of *)
(* the table overwrites an earlier one; a missing alias reads undefined.   *)

Max(S) == CHOOSE x \in S : \A y \in S : y <= x

ShortsGet(table, c) ==
    LET owners == {i \in 1..Len(table) : Includes(ShortsOf(table[i].flags), <<c>>)}
    IN  owners # {} /\ table[Max(owners)].takesValue

LongsGet(table, name) ==
    LET owners == {i \in 1..Len(table) : Includes(LongsOf(table[i].flags), name)}
    IN  owners # {} /\ table[Max(owners)].takesValue

----------------------------------------------------------------------------
(* Command.#preprocess *)

DashDash == <<"-", "-">>

\* AttachedValue without the branch of line 325: the "=" stays in the value
AttachedValueKeepsEquals(rest) == rest

\* lines 325-329: the value attached to a value-taking short flag
AttachedValue(rest) ==
    IF StartsWith(rest, <<"=">>) THEN Substring(rest, 1) ELSE rest

\* Cluster with the break of line 331 after the if/else instead of inside
\* the if: the loop ends after the first character
ClusterStopsEarly(table, s, i) ==
    IF i >= Len(s) THEN [out |-> <<>>, shift |-> FALSE]
    ELSE IF ShortsGet(table, s[i + 1])
         THEN LET rest == Substring(s, i + 1)
              IN  IF rest = <<>>
                  THEN [out |-> <<<<"-", s[i + 1]>>>>, shift |-> TRUE]
                  ELSE [out |-> <<<<"-", s[i + 1]>>, AttachedValue(rest)>>, shift |-> FALSE]
         ELSE [out |-> <<<<"-", s[i + 1]>>>>, shift |-> FALSE]

\* the loop over the characters of a short-flag cluster s from index i
\* (0-based) on: the tokens pushed, and whether the next argv entry is
\* consumed as the value of the last flag
RECURSIVE Cluster(_, _, _)
Cluster(table, s, i) ==
    IF i >= Len(s) THEN [out |-> <<>>, shift |-> FALSE]
    ELSE IF ShortsGet(table, s[i + 1])
         THEN LET rest == Substring(s, i + 1)
              IN  IF rest = <<>>
                  THEN [out |-> <<<<"-", s[i + 1]>>>>, shift |-> TRUE]
                  ELSE [out |-> <<<<"-", s[i + 1]>>, AttachedValue(rest)>>, shift |-> FALSE]
         ELSE LET more == Cluster(table, s, i + 1)
              IN  [out |-> <<<<"-", s[i + 1]>>>> \o more.out, shift |-> more.shift]

\* the value pushed after pos++ (lines 308-309, 323-324), if argv has one
ShiftValue(raw, p) == IF p < Len(raw) THEN <<raw[p + 1]>> ELSE <<>>

\* SplitLong that pushes the token as it is
SplitLongNot(s, index) == <<s>>

\* lines 311-313: --arg=val becomes --arg val
SplitLong(s, index) == <<Prefix(s, index), Substring(s, index + 1)>>

\* the loop of #preprocess from index p (0-based) on
RECURSIVE PreprocessFrom(_, _, _)
PreprocessFrom(table, raw, p) ==
    IF p >= Len(raw) THEN <<>>
    ELSE LET s == raw[p + 1] IN
         IF s = DashDash THEN SubSeq(raw, p + 1, Len(raw))
         ELSE IF StartsWith(s, DashDash)
         THEN LET index == IndexOf(s, "=") IN
              IF index < 0
              THEN IF LongsGet(table, Substring(s, 2))
                   THEN <<s>> \o ShiftValue(raw, p + 1) \o PreprocessFrom(table, raw, p + 2)
                   ELSE <<s>> \o PreprocessFrom(table, raw, p + 1)
              ELSE SplitLong(s, index) \o PreprocessFrom(table, raw, p + 1)
         ELSE IF Len(s) > 1 /\ StartsWith(s, <<"-">>)
         THEN LET c == Cluster(table, s, 1) IN
              IF c.shift
              THEN c.out \o ShiftValue(raw, p + 1) \o PreprocessFrom(table, raw, p + 2)
              ELSE c.out \o PreprocessFrom(table, raw, p + 1)
         ELSE <<s>> \o PreprocessFrom(table, raw, p + 1)

Preprocess(table, raw) == PreprocessFrom(table, raw, 0)

----------------------------------------------------------------------------
(* Command.#get: the index of the table entry a token resolves to, 0 for   *)
(* undefined                                                               *)

\* find(this.#args.values(), x => x.flags.includes(name))
Find(table, name) ==
    IF \E i \in 1..Len(table) : Includes(table[i].flags, name)
    THEN CHOOSE i \in 1..Len(table) :
             Includes(table[i].flags, name)
             /\ \A j \in 1..(i - 1) : ~Includes(table[j].flags, name)
    ELSE 0

\* lines 212-225: the first positional without an occurrence, else the last
\* positional if it is multi
\* NextPositional that falls back to the last positional, multi or not
NextPositionalOrLast(table) ==
    LET positionals == {i \in 1..Len(table) : table[i].isPositional}
        open == {i \in positionals : table[i].occurrences = 0}
    IN  IF positionals = {} THEN 0
        ELSE IF open # {} THEN CHOOSE i \in open : \A j \in open : i <= j
        ELSE Max(positionals)

NextPositional(table) ==
    LET positionals == {i \in 1..Len(table) : table[i].isPositional}
        open == {i \in positionals : table[i].occurrences = 0}
    IN  IF positionals = {} THEN 0
        ELSE IF open # {} THEN CHOOSE i \in open : \A j \in open : i <= j
        ELSE IF table[Max(positionals)].multi THEN Max(positionals)
        ELSE 0

\* Get where -h and --help never resolve to an argument
GetReservesHelp(table, s) ==
    IF s = <<"-", "h">> \/ s = <<"-", "-", "h", "e", "l", "p">> THEN 0
    ELSE IF StartsWith(s, DashDash)
    THEN IF Len(s) = 3 THEN 0 ELSE Find(table, Substring(s, 2))
    ELSE IF Len(s) > 1 /\ StartsWith(s, <<"-">>)
    THEN Find(table, Substring(s, 1))
    ELSE NextPositional(table)

Get(table, s) ==
    IF StartsWith(s, DashDash)
    THEN IF Len(s) = 3 THEN 0 ELSE Find(table, Substring(s, 2))
    ELSE IF Len(s) > 1 /\ StartsWith(s, <<"-">>)
    THEN Find(table, Substring(s, 1))
    ELSE NextPositional(table)

----------------------------------------------------------------------------
(* One parse call as a record of the Command's fields and parse's locals,  *)
(* so that the steps of parse are operators the actions below apply.       *)

NoError == [kind |-> "", name |-> <<>>, other |-> <<>>, val |-> <<>>]

NoOutcome == [status |-> "none", err |-> NoError, result |-> <<>>, exit |-> -1]

\* parse's locals once the call is over
Ended(st, out, at) ==
    [st EXCEPT !.rawArgv = <<>>, !.didReset = FALSE, !.argv = <<>>, !.pos = 0, !.passthru = FALSE,
               !.vi = 0, !.pc = at, !.outcome = out]

\* Command.#errAndExit: throw the message, or print it and exit with 1
ErrAndExit(st, msg) ==
    IF st.throwOnError
    THEN Ended(st, [status |-> "error", err |-> msg, result |-> <<>>, exit |-> -1], "ready")
    ELSE Ended(st, [status |-> "error", err |-> msg, result |-> <<>>, exit |-> 1], "exited")

\* an exception that is not thrown by #errAndExit leaves parse in either mode
Throw(st, msg) ==
    Ended(st, [status |-> "error", err |-> msg, result |-> <<>>, exit |-> -1], "ready")

\* Command.#helpAndExit: print the usage and exit with 0
HelpAndExit(st) ==
    Ended(st, [status |-> "help", err |-> NoError, result |-> <<>>, exit |-> 0], "exited")

\* Command.#reset
\* Reset without line 349
ResetKeepsVals(table) ==
    [i \in 1..Len(table) |-> [table[i] EXCEPT !.occurrences = 0]]

Reset(table) ==
    [i \in 1..Len(table) |-> [table[i] EXCEPT !.occurrences = 0, !.vals = <<>>]]

\* the matching loop is over: the validation loop starts (or, with an empty
\* table, the result is built)
ToValidate(st) ==
    IF Len(st.args) = 0 THEN [st EXCEPT !.pc = "build"]
    ELSE [st EXCEPT !.pc = "validate", !.vi = 1]

\* the loop condition of line 363 (and 367) with pos at p
LoopAt(st, p) ==
    IF p < Len(st.argv) THEN [st EXCEPT !.pos = p] ELSE ToValidate([st EXCEPT !.pos = p])

\* parse, lines 359-361
ParseBegin(st, a) ==
    LET table == IF ~st.fresh THEN Reset(st.args) ELSE st.args
    IN  LoopAt([st EXCEPT !.args = table, !.fresh = FALSE, !.rawArgv = a,
                          !.didReset = ~st.fresh,
                          !.argv = Preprocess(table, a), !.passthru = FALSE,
                          !.vi = 0, !.pc = "match", !.outcome = NoOutcome], 0)

HelpShort == <<"-", "h">>
HelpLong == <<"-", "-", "h", "e", "l", "p">>

\* Unresolved that ignores the token and reads on
UnresolvedSkips(st, s) == LoopAt(st, st.pos + 1)

\* lines 379-388: the token resolves to no argument
Unresolved(st, s) ==
    IF s = HelpShort THEN HelpAndExit(st)
    ELSE IF s = HelpLong THEN HelpAndExit(st)
    ELSE IF StartsWith(s, <<"-">>)
         THEN ErrAndExit(st, [NoError EXCEPT !.kind = "unknown option", !.val = s])
         ELSE ErrAndExit(st, [NoError EXCEPT !.kind = "unexpected value", !.val = s])

\* NoValueLeft that also reports a flag whose value is the last token
NoValueLeftBeforeLast(st) == st.pos + 2 >= Len(st.argv)

\* lines 395-396: pos++ moves past the end of argv
NoValueLeft(st) == st.pos + 1 >= Len(st.argv)

\* one iteration of the loop of lines 363-404 outside the "--" loop
MatchToken(st) ==
    LET s == st.argv[st.pos + 1]
        flag == Get(st.args, s)
    IN  IF s = DashDash
        THEN LoopAt([st EXCEPT !.passthru = TRUE], st.pos + 1)
        ELSE IF flag = 0 THEN Unresolved(st, s)
        ELSE LET counted == [st.args EXCEPT ![flag].occurrences = @ + 1] IN
             IF ~counted[flag].takesValue
             THEN LoopAt([st EXCEPT !.args = counted], st.pos + 1)
             ELSE IF counted[flag].isPositional
             THEN LoopAt([st EXCEPT !.args = [counted EXCEPT ![flag].vals = Append(@, s)]],
                         st.pos + 1)
             ELSE IF NoValueLeft(st)
             THEN ErrAndExit([st EXCEPT !.args = counted],
                             [NoError EXCEPT !.kind = "requires a value but none was supplied",
                                             !.name = counted[flag].name])
             ELSE LoopAt([st EXCEPT !.args =
                              [counted EXCEPT ![flag].vals = Append(@, st.argv[st.pos + 2])]],
                         st.pos + 2)

\* PassThroughTarget looking up the token itself instead of ""
PassThroughLooksUpToken(table, s) == Get(table, s)

\* line 369: after "--" the empty string is looked up, which #get can only
\* resolve to a positional
PassThroughTarget(table, s) == Get(table, <<>>)

\* one iteration of the loop of lines 367-376, after "--"
MatchRest(st) ==
    LET s == st.argv[st.pos + 1]
        arg == PassThroughTarget(st.args, s)
    IN  IF arg # 0
        THEN LoopAt([st EXCEPT !.args = [st.args EXCEPT ![arg].occurrences = @ + 1,
                                                        ![arg].vals = Append(@, s)]],
                    st.pos + 1)
        ELSE ErrAndExit(st, [NoError EXCEPT !.kind = "unexpected value", !.val = s])

----------------------------------------------------------------------------
(* The validation loop of parse, lines 407-452 *)

\* this.#args.get(key)
ArgIndex(table, k) == CHOOSE i \in 1..Len(table) : table[i].key = k

\* lines 409-410: the places in the conflicts list where the loop stops, at
\* a key the table does not have or at a target that occurs
ConflictStops(table, flag) ==
    {j \in 1..Len(flag.conflicts) :
        \/ ~HasKey(table, flag.conflicts[j])
        \/ table[ArgIndex(table, flag.conflicts[j])].occurrences > 0}

FirstStop(table, flag) ==
    flag.conflicts[CHOOSE j \in ConflictStops(table, flag) :
                       \A k \in ConflictStops(table, flag) : j <= k]

\* ConflictHit where a single occurrence of the argument is not enough
ConflictHitOnRepeat(table, flag) ==
    IF /\ flag.occurrences > 1
       /\ ConflictStops(table, flag) # {}
       /\ HasKey(table, FirstStop(table, flag))
    THEN ArgIndex(table, FirstStop(table, flag))
    ELSE 0

\* lines 408-417: the index of the first conflicts target that occurs, else 0
ConflictHit(table, flag) ==
    IF /\ flag.occurrences > 0
       /\ ConflictStops(table, flag) # {}
       /\ HasKey(table, FirstStop(table, flag))
    THEN ArgIndex(table, FirstStop(table, flag))
    ELSE 0

\* line 410: other is undefined and reading other.occurrences throws a
\* TypeError
ConflictCrash(table, flag) ==
    /\ flag.occurrences > 0
    /\ ConflictStops(table, flag) # {}
    /\ ~HasKey(table, FirstStop(table, flag))

\* RequiresChecked without the filter of lines 420-422
RequiresCheckedAlways(other) == TRUE

\* line 420-422: a requires target with a default is filtered out
RequiresChecked(other) == other.default = <<>>

\* lines 418-431: the index of the first requires target that is defined,
\* is checked and does not occur, else 0
RequiresMiss(table, flag) ==
    LET miss == {j \in 1..Len(flag.requires) :
                    /\ HasKey(table, flag.requires[j])
                    /\ LET other == table[ArgIndex(table, flag.requires[j])]
                       IN  RequiresChecked(other) /\ other.occurrences = 0}
    IN  IF flag.occurrences > 0 /\ miss # {}
        THEN ArgIndex(table, flag.requires[CHOOSE j \in miss : \A k \in miss : j <= k])
        ELSE 0

\* TooMany that tolerates a second occurrence
TooManyOverTwo(flag) == ~flag.multi /\ flag.occurrences > 2

\* TooMany that does not look at multi
TooManyEvenMulti(flag) == flag.occurrences > 1

\* line 432
TooMany(flag) == ~flag.multi /\ flag.occurrences > 1

\* MissingRequired that lets a multi argument go
MissingRequiredSingle(flag) == flag.required /\ flag.occurrences = 0 /\ ~flag.multi

\* line 436
MissingRequired(flag) == flag.required /\ flag.occurrences = 0

\* WithDefault that replaces the values of an argument that occurs
WithDefaultAlways(flag) ==
    IF flag.default # <<>> THEN [flag EXCEPT !.vals = <<flag.default[1]>>] ELSE flag

\* lines 439-441
WithDefault(flag) ==
    IF flag.occurrences = 0 /\ flag.default # <<>>
    THEN [flag EXCEPT !.vals = <<flag.default[1]>>]
    ELSE flag

\* FirstInvalid reporting the last value the validator rejects
LastInvalid(flag) ==
    LET bad == {j \in 1..Len(flag.vals) : Validate(flag, flag.vals[j]) # <<>>}
    IN  IF bad = {} THEN 0 ELSE CHOOSE j \in bad : \A k \in bad : j >= k

\* lines 442-451: the index of the first value the validator rejects, else 0
FirstInvalid(flag) ==
    LET bad == {j \in 1..Len(flag.vals) : Validate(flag, flag.vals[j]) # <<>>}
    IN  IF bad = {} THEN 0 ELSE CHOOSE j \in bad : \A k \in bad : j <= k

\* the loop of line 407 moves on to the next argument
NextArg(st) ==
    IF st.vi < Len(st.args) THEN [st EXCEPT !.vi = st.vi + 1] ELSE [st EXCEPT !.pc = "build"]

\* one iteration of the validation loop
ValidateArg(st) ==
    LET flag == st.args[st.vi]
        c == ConflictHit(st.args, flag)
        r == RequiresMiss(st.args, flag)
        seeded == [st EXCEPT !.args[st.vi] = WithDefault(flag)]
        bad == FirstInvalid(WithDefault(flag))
    IN  IF ConflictCrash(st.args, flag)
        THEN Throw(st, [NoError EXCEPT !.kind = "TypeError", !.name = flag.name])
        ELSE IF c # 0
        THEN ErrAndExit(st, [NoError EXCEPT !.kind = "cannot be used together with",
                                            !.name = flag.name, !.other = st.args[c].name])
        ELSE IF r # 0
        THEN ErrAndExit(st, [NoError EXCEPT !.kind = "requires to be present",
                                            !.name = flag.name, !.other = st.args[r].name])
        ELSE IF TooMany(flag)
        THEN ErrAndExit(st, [NoError EXCEPT !.kind = "can be specified only once",
                                            !.name = flag.name])
        ELSE IF ~flag.takesValue THEN NextArg(st)
        ELSE IF MissingRequired(flag)
        THEN ErrAndExit(st, [NoError EXCEPT !.kind = "missing required value for",
                                            !.name = flag.name])
        ELSE IF bad # 0
        THEN ErrAndExit(seeded, [NoError EXCEPT !.kind = "failed to validate",
                                                !.name = flag.name,
                                                !.val = WithDefault(flag).vals[bad],
                                                !.other = Validate(flag, WithDefault(flag).vals[bad])])
        ELSE NextArg(seeded)

----------------------------------------------------------------------------
(* The result, lines 455-461.  A Value is a record: shape names the        *)
(* JavaScript type, n is the number, vals holds the string or the strings. *)

\* Project without the multi branch of line 458
ProjectSingle(v) ==
    IF ~v.takesValue THEN [shape |-> "number", n |-> v.occurrences, vals |-> <<>>]
    ELSE IF Len(v.vals) > 0 THEN [shape |-> "string", n |-> 0, vals |-> <<v.vals[1]>>]
    ELSE [shape |-> "undefined", n |-> 0, vals |-> <<>>]

Project(v) ==
    IF ~v.takesValue THEN [shape |-> "number", n |-> v.occurrences, vals |-> <<>>]
    ELSE IF v.multi THEN [shape |-> "string[]", n |-> 0, vals |-> v.vals]
    ELSE IF Len(v.vals) > 0 THEN [shape |-> "string", n |-> 0, vals |-> <<v.vals[1]>>]
    ELSE [shape |-> "undefined", n |-> 0, vals |-> <<>>]

\* the ArgMatches object: its entries in insertion order
Matches(table) == [i \in 1..Len(table) |-> [key |-> table[i].key, value |-> Project(table[i])]]

Build(st) ==
    Ended(st, [status |-> "ok", err |-> NoError, result |-> Matches(st.args), exit |-> -1],
          "ready")

----------------------------------------------------------------------------
(* A whole parse call as a function of the Command and the tokens *)

Step(st) ==
    IF st.pc = "match" THEN (IF st.passthru THEN MatchRest(st) ELSE MatchToken(st))
    ELSE IF st.pc = "validate" THEN ValidateArg(st)
    ELSE IF st.pc = "build" THEN Build(st)
    ELSE st

RECURSIVE Run(_)
Run(st) == IF st.pc \in {"match", "validate", "build"} THEN Run(Step(st)) ELSE st

\* a freshly constructed Command holding table
FreshCommand(table, throw) ==
    [args |-> table, fresh |-> TRUE, throwOnError |-> throw, rawArgv |-> <<>>,
     didReset |-> FALSE, argv |-> <<>>, pos |-> 0, passthru |-> FALSE, vi |-> 0, pc |-> "ready",
     outcome |-> NoOutcome]

\* what parse(a) gives on a freshly constructed Command
ParseFresh(table, throw, a) == Run(ParseBegin(FreshCommand(table, throw), a)).outcome

----------------------------------------------------------------------------
(* The schemas the Command is constructed with, each with the tokens the   *)
(* raw token lists handed to parse are drawn from.                         *)

Flag(key, flags) == [Arg(key) EXCEPT !.flags = flags]
Opt(key, flags) == [Arg(key) EXCEPT !.flags = flags, !.takesValue = TRUE]

o == <<"o">>
opt == <<"o", "p", "t">>
v == <<"v">>
w == <<"w">>
x == <<"x">>
y == <<"y">>

Examples == <<
    \* 1: a value-taking flag with a short and a long alias, and a positional
    [ args |-> << Opt("opt", <<o, opt>>), Arg("file") >>,
      tokens |-> { <<"-","-","o","p","t","=","v">>, <<"-","o","=","v">>, <<"-","o","v">>,
                   <<"-","o">>, <<"-","-","o","p","t">>, v } ],
    \* 2: the same flag authored with hyphens, fed values that start with "="
    [ args |-> << Opt("opt", << <<"-","o">>, <<"-","-","o","p","t">> >>),
                  [Arg("rest") EXCEPT !.multi = TRUE] >>,
      tokens |-> { <<"-","-","o","p","t","=","=","v">>, <<"-","o","=","=","v">>,
                   <<"-","o","=","v">>, <<"-","o">>, <<"-","-","o","p","t">>, <<"=","v">> } ],
    \* 3: short flags that combine into clusters
    [ args |-> << Flag("a", << <<"a">> >>), [Flag("b", << <<"b">> >>) EXCEPT !.multi = TRUE],
                  Opt("c", << <<"c">> >>) >>,
      tokens |-> { <<"-","a","b","c","r">>, <<"-","a","b","c","=","r">>, <<"-","a">>,
                   <<"-","b">>, <<"-","a","b">>, <<"-","c">>, <<"-","b","c">> } ],
    \* 4: the "--" separator
    [ args |-> << Opt("opt", <<o>>), Flag("x", <<x>>), Arg("word") >>,
      tokens |-> { DashDash, <<"-","o">>, <<"-","x">>, w, <<"-","-","=","w">> } ],
    \* 5: conflicts, one-sided and mutual
    [ args |-> << Flag("b", << <<"b">> >>),
                  [Flag("a", << <<"a">> >>) EXCEPT !.conflicts = <<"b", "c">>],
                  [Flag("c", << <<"c">> >>) EXCEPT !.conflicts = <<"a">>, !.multi = TRUE] >>,
      tokens |-> { <<"-","a">>, <<"-","b">>, <<"-","c">>, HelpShort } ],
    \* 6: examples/concat.ts without its boolean flags
    [ args |-> << [Flag("sep", << <<"s">>, <<"s","e","p">> >>) EXCEPT !.default = << <<"-">> >>],
                  [Arg("words") EXCEPT !.multi = TRUE, !.required = TRUE] >>,
      tokens |-> { <<"-","s">>, <<"_">>, w, DashDash, <<"-","-","s","e","p","=","_">> } ],
    \* 7: defaults that meet a validator
    [ args |-> << [Flag("lvl", << <<"l">> >>) EXCEPT !.default = <<x>>, !.required = TRUE,
                                                   !.possible = <<x, y>>, !.ignoreCase = TRUE],
                  [Flag("tag", << <<"t">> >>) EXCEPT !.default = <<x>>, !.multi = TRUE],
                  [Flag("mode", << <<"m">> >>) EXCEPT !.default = << <<"z">> >>,
                                                    !.possible = <<x, y>>] >>,
      tokens |-> { <<"-","l">>, <<"-","t">>, <<"-","m">>, x, <<"Y">> } ],
    \* 8: requires, with and without a default on the target
    [ args |-> << [Flag("a", << <<"a">> >>) EXCEPT !.requires = <<"b", "c">>],
                  [Flag("b", << <<"b">> >>) EXCEPT !.default = << <<"d">> >>],
                  Flag("c", << <<"c">> >>) >>,
      tokens |-> { <<"-","a">>, <<"-","b">>, <<"-","c">>, <<"d">>, HelpLong } ],
    \* 9: examples/bump-version.ts, bump as a flag
    [ args |-> << [Flag("bump", << <<"b">>, <<"b","u","m","p">> >>) EXCEPT
                       !.possible = <<x, y>>, !.ignoreCase = TRUE, !.required = TRUE],
                  [Arg("ver") EXCEPT !.required = TRUE, !.validate = << {<<"1">>} >>] >>,
      tokens |-> { <<"-","-","b","u","m","p">>, <<"-","b","X">>, x, <<"1">>, <<"q">> } ],
    \* 10: a multi positional that is not the last positional
    [ args |-> << [Arg("words") EXCEPT !.multi = TRUE], Arg("file") >>,
      tokens |-> { w } ],
    \* 11: a conflict with itself
    [ args |-> << [Flag("a", << <<"a">> >>) EXCEPT !.conflicts = <<"a">>] >>,
      tokens |-> { <<"-","a">> } ],
    \* 12: cross-references to names every object inherits
    [ args |-> << [Flag("a", << <<"a">> >>) EXCEPT !.conflicts = <<"constructor">>],
                  [Flag("b", << <<"b">> >>) EXCEPT !.requires = <<"toString">>],
                  [Flag("c", << <<"c">> >>) EXCEPT !.default = <<x>>] >>,
      tokens |-> { <<"-","a">>, <<"-","b">> } ],
    \* 13: the alias h declared by a value-taking flag
    [ args |-> << Opt("host", << <<"h">> >>), Arg("word") >>,
      tokens |-> { HelpShort, HelpLong, w } ],
    \* 14: the alias help declared by a flag
    [ args |-> << [Flag("help", << <<"h","e","l","p">> >>) EXCEPT !.multi = TRUE] >>,
      tokens |-> { HelpShort, HelpLong } ],
    \* 15: possible together with a validate that accepts something else
    [ args |-> << [Opt("lvl", << <<"l">> >>) EXCEPT !.possible = <<x, <<"Y">> >>, !.multi = TRUE,
                                                   !.validate = << {v} >>] >>,
      tokens |-> { <<"-","l","x">>, <<"-","l","X">>, <<"-","l","Y">>, <<"-","l","v">> } ],
    \* 16: long flags that take no value, fed values with "="
    [ args |-> << Flag("vb", << <<"v","b">> >>), Flag("xy", << <<"x","y">> >>) >>,
      tokens |-> { <<"-","-","v","b","=","-","x","y">>, <<"-","-","v","b","=","w">>,
                   <<"-","-","v","b">>, <<"-","x","y">> } ],
    \* 17: positionals around a flag, the last one multi
    [ args |-> << Arg("name"), Flag("f", << <<"f">> >>), Arg("surname"),
                  [Arg("rest") EXCEPT !.multi = TRUE] >>,
      tokens |-> { w, x, <<"-","f">>, DashDash } ],
    \* 18: positionals, none multi, and tokens nothing resolves
    [ args |-> << Arg("name"), Arg("surname") >>,
      tokens |-> { w, <<"-">>, <<"-","z">>, <<"-","-","z">>, DashDash } ],
    \* 19: one argument for every rule of the validation loop, after a flag
    \* that takes no value and is authored as required
    [ args |-> << [Flag("q", << <<"q">> >>) EXCEPT !.required = TRUE],
                  [Opt("n", << <<"n">> >>) EXCEPT !.conflicts = <<"q">>, !.requires = <<"m">>,
                                                  !.validate = << {x} >>],
                  [Opt("m", << <<"m">> >>) EXCEPT !.required = TRUE, !.multi = TRUE,
                                                  !.validate = << {x} >>] >>,
      tokens |-> { <<"-","q">>, <<"-","n","x">>, <<"-","n","v">>, <<"-","m","x">>,
                   <<"-","m","v">>, <<"-","z">> } ],
    \* 20: a flag that takes no value, fed values attached with "="
    [ args |-> << Flag("force", << <<"f">>, <<"f","o","r","c","e">> >>), Arg("word") >>,
      tokens |-> { <<"-","f","=","w">>, <<"-","-","f","o","r","c","e","=","w">>,
                   <<"-","-","f","o","r","c","e","=","-","f">>, <<"-","f">>, w } ],
    \* 21: the alias "=" declared by a value-taking flag
    [ args |-> << Flag("f", << <<"f">> >>), Opt("eq", << <<"=">> >>) >>,
      tokens |-> { <<"-","f","=","w">>, <<"-","f">> } ]
>>

----------------------------------------------------------------------------
(* The schemas the constructor is tried on: arguments keyed by position,   *)
(* each of one of a few kinds.                                             *)

MaxArgs == 3

Keys == <<"p", "q", "r", "s", "t">>

\* the lists of n indices into a sequence of b elements, in a sequence
Tuples(n, b) == [m \in 1..(b ^ n) |-> [i \in 1..n |-> (((m - 1) \div (b ^ (i - 1))) % b) + 1]]

\* those of lo..hi indices
RECURSIVE TuplesFrom(_, _, _)
TuplesFrom(lo, hi, b) == IF lo > hi THEN <<>> ELSE Tuples(lo, b) \o TuplesFrom(lo + 1, hi, b)

\* the Arg of kind k authored under the i-th key
OfKind(i, k) ==
    CASE k = "flag" -> Flag(Keys[i], << <<Keys[i]>> >>)
      [] k = "multi flag" -> [Flag(Keys[i], << <<Keys[i]>> >>) EXCEPT !.multi = TRUE]
      [] k = "positional" -> Arg(Keys[i])
      [] k = "multi positional" -> [Arg(Keys[i]) EXCEPT !.multi = TRUE]

\* every schema of 1..MaxArgs arguments of these kinds, with no tokens
Orderings ==
    LET kinds == <<"flag", "multi flag", "positional", "multi positional">>
        lists == TuplesFrom(1, MaxArgs, Len(kinds))
    IN  [m \in 1..Len(lists) |->
            [args |-> [i \in 1..Len(lists[m]) |-> OfKind(i, kinds[lists[m][i]])], tokens |-> {}]]

\* every schema of one flag with 1..MaxAliases aliases, authored with and
\* without hyphens, some of them empty once the hyphens are stripped
MaxAliases == 2

Aliases ==
    LET names == << <<>>, <<"-">>, <<"-", "-">>, <<"a">>, <<"-", "a">>, <<"a", "b">>,
                    <<"-", "-", "a", "b">> >>
        lists == TuplesFrom(1, MaxAliases, Len(names))
    IN  [m \in 1..Len(lists) |->
            [args |-> << Flag("p", [i \in 1..Len(lists[m]) |-> names[lists[m][i]]]) >>,
             tokens |-> {}]]

\* every schema of two flags where the first lists up to MaxRefs keys in
\* conflicts and up to one in requires: its own key, the other key, a key
\* nothing has and a key every object inherits
MaxRefs == 2

References ==
    LET keys == <<"p", "q", "z", "constructor">>
        cs == TuplesFrom(0, MaxRefs, Len(keys))
        rs == TuplesFrom(0, 1, Len(keys))
        Named(l) == [i \in 1..Len(l) |-> keys[l[i]]]
    IN  [m \in 1..(Len(cs) * Len(rs)) |->
            [args |-> << [Flag("p", << <<"p">> >>) EXCEPT
                              !.conflicts = Named(cs[((m - 1) % Len(cs)) + 1]),
                              !.requires = Named(rs[((m - 1) \div Len(cs)) + 1])],
                         Flag("q", << <<"q">> >>) >>,
             tokens |-> {}]]

Cases == Examples \o Orderings \o Aliases \o References

\* the raw token lists parse is called with
Argvs(tokens) == UNION {[1..n -> tokens] : n \in 0..MaxArgv}

----------------------------------------------------------------------------
(* The state machine *)

Cur ==
    [args |-> args, fresh |-> fresh, throwOnError |-> throwOnError, rawArgv |-> rawArgv,
     didReset |-> didReset, argv |-> argv, pos |-> pos, passthru |-> passthru, vi |-> vi, pc |-> pc,
     outcome |-> outcome]

Become(st) ==
    /\ args' = st.args
    /\ fresh' = st.fresh
    /\ throwOnError' = st.throwOnError
    /\ rawArgv' = st.rawArgv
    /\ didReset' = st.didReset
    /\ argv' = st.argv
    /\ pos' = st.pos
    /\ passthru' = st.passthru
    /\ vi' = st.vi
    /\ pc' = st.pc
    /\ outcome' = st.outcome
    /\ UNCHANGED schema

Init ==
    /\ schema \in 1..Len(Examples)
    /\ args = <<>>
    /\ fresh = TRUE
    /\ throwOnError = FALSE
    /\ rawArgv = <<>>
    /\ didReset = FALSE
    /\ argv = <<>>
    /\ pos = 0
    /\ passthru = FALSE
    /\ vi = 0
    /\ pc = "new"
    /\ outcome = NoOutcome

\* new Command(appName, args)
New ==
    /\ pc = "new"
    /\ LET c == Construct(Cases[schema].args)
       IN  Become([Cur EXCEPT !.args = c.table,
                              !.outcome.err.kind = c.err,
                              !.pc = IF c.ok THEN "ready" ELSE "schemaError"])

\* command.throwOnError(yes)
ThrowOnError ==
    /\ pc = "ready"
    /\ \E yes \in BOOLEAN : Become([Cur EXCEPT !.throwOnError = yes])

\* command.parse(a), up to the first iteration of the matching loop
Parse ==
    /\ pc = "ready"
    /\ \E a \in Argvs(Cases[schema].tokens) : Become(ParseBegin(Cur, a))

\* an iteration of the matching loop before "--"
Match ==
    /\ pc = "match"
    /\ ~passthru
    /\ Become(MatchToken(Cur))

\* an iteration of the loop after "--"
MatchAfterDashDash ==
    /\ pc = "match"
    /\ passthru
    /\ Become(MatchRest(Cur))

\* an iteration of the validation loop
Validation ==
    /\ pc = "validate"
    /\ Become(ValidateArg(Cur))

\* parse returns the ArgMatches
Return ==
    /\ pc = "build"
    /\ Become(Build(Cur))

Next == New \/ ThrowOnError \/ Parse \/ Match \/ MatchAfterDashDash \/ Validation \/ Return

Spec == Init /\ [][Next]_vars

\* the constructor alone, on every schema
ConstructInit ==
    /\ schema \in 1..Len(Cases)
    /\ args = <<>>
    /\ fresh = TRUE
    /\ throwOnError = FALSE
    /\ rawArgv = <<>>
    /\ didReset = FALSE
    /\ argv = <<>>
    /\ pos = 0
    /\ passthru = FALSE
    /\ vi = 0
    /\ pc = "new"
    /\ outcome = NoOutcome

Constructing == ConstructInit /\ [][New]_vars

----------------------------------------------------------------------------
(* Vocabulary of the properties *)

\* the table the constructor built for the schema in use
Table == Construct(Cases[schema].args).table

\* the Arg the caller authored for table entry i
Authored(i) == Cases[schema].args[i]

\* a step in which the parse call in progress returns, throws or exits
Finishing == pc \in {"match", "validate", "build"} /\ pc' \in {"ready", "exited"}

\* a parse call has finished and this is what it gave
Finished == pc \in {"ready", "exited"} /\ outcome.status # "none"

\* errors of the matching loop, as opposed to those of the validation loop
MatchingErrors ==
    {"unknown option", "unexpected value", "requires a value but none was supplied"}

FailedValidation == outcome.status = "error" /\ outcome.err.kind \notin MatchingErrors

\* the table entry a validation error names
ErrArg == CHOOSE i \in 1..Len(args) : args[i].name = outcome.err.name

\* the Value the result out holds for table entry i
ValueOf(out, i) == out.result[i].value

StringValue(s) == [shape |-> "string", n |-> 0, vals |-> <<s>>]

----------------------------------------------------------------------------
(* C1: the five spellings of a flag with its value *)

\* the table entries that are non-multi value-taking flags
SingleValueFlags == {i \in 1..Len(args) :
                        ~args[i].isPositional /\ args[i].takesValue /\ ~args[i].multi}

ShortAliases(i) == {args[i].flags[k] : k \in {k \in 1..Len(args[i].flags) : Len(args[i].flags[k]) = 1}}
LongAliases(i) == {args[i].flags[k] : k \in {k \in 1..Len(args[i].flags) : Len(args[i].flags[k]) > 1}}

\* [--l=val], [-c=val], [-cval], [-c, val], [--l, val]
FiveForms(c, l, val) ==
    { << DashDash \o l \o <<"=">> \o val >>,
      << <<"-">> \o c \o <<"=">> \o val >>,
      << <<"-">> \o c \o val >>,
      << <<"-">> \o c, val >>,
      << DashDash \o l, val >> }

\* nothing but the flag's own value can make a parse that supplies only
\* table entry i fail: the value passes i's validator, every target i
\* requires has a default, and every other argument is optional and has no
\* default its validator rejects
OnlyValueMatters(i, val) ==
    /\ Validate(args[i], val) = <<>>
    /\ \A j \in 1..Len(args[i].requires) :
           args[ArgIndex(args, args[i].requires[j])].default # <<>>
    /\ \A k \in 1..Len(args) : k # i =>
           /\ ~(args[k].takesValue /\ args[k].required)
           /\ args[k].default # <<>> => Validate(args[k], args[k].default[1]) = <<>>

\* C1 as stated: for every non-empty value val, each of the five token lists
\* succeeds and collects val for the flag.
C1_AnyValue ==
    [][Finishing =>
         \A i \in SingleValueFlags : \A c \in ShortAliases(i) : \A l \in LongAliases(i) :
           \A val \in Cases[schema].tokens :
             (rawArgv \in FiveForms(c, l, val) /\ OnlyValueMatters(i, val))
                 => (outcome'.status = "ok" /\ ValueOf(outcome', i) = StringValue(val))]_vars

\* C1 as amended: for every non-empty value val that does not start with
\* "=", the five token lists [--l=val], [-c=val], [-cval], [-c, val] and
\* [--l, val] of a non-multi value-taking flag with short alias c and long
\* alias l all end in the same outcome; it is a success that collects val
\* for the flag whenever nothing but the value can make the parse fail, and
\* a success of any of them collects val.
C1_FiveFormsAgree ==
    [][Finishing =>
         \A i \in SingleValueFlags : \A c \in ShortAliases(i) : \A l \in LongAliases(i) :
           \A val \in {t \in Cases[schema].tokens : t[1] # "="} :
             rawArgv \in FiveForms(c, l, val) =>
                 /\ \A form \in FiveForms(c, l, val) :
                        ParseFresh(Table, throwOnError, form) = outcome'
                 /\ outcome'.status = "ok" => ValueOf(outcome', i) = StringValue(val)
                 /\ OnlyValueMatters(i, val) => outcome'.status = "ok"]_vars

\* the parse of [-ov] is about to return with v collected for opt
C1_Witness ==
    /\ schema = 1
    /\ pc = "build"
    /\ rawArgv = << <<"-", "o", "v">> >>
    /\ args[1].vals = <<v>>

----------------------------------------------------------------------------
(* C2: a cluster of short flags and its expansion *)

\* c is a short alias of the schema that takes no value
ValuelessShort(c) ==
    \E i \in 1..Len(args) : ~args[i].takesValue /\ Includes(ShortsOf(args[i].flags), <<c>>)

\* the number of leading characters of chars that are value-less short flags
RECURSIVE ValuelessPrefix(_)
ValuelessPrefix(chars) ==
    IF chars # <<>> /\ ValuelessShort(chars[1])
    THEN 1 + ValuelessPrefix(Substring(chars, 1))
    ELSE 0

\* -abc<r> written out as -a, -b, -c<r>: one token per leading value-less
\* flag, then what is left of the cluster as one token
Expanded(tok) ==
    LET chars == Substring(tok, 1)
        k == ValuelessPrefix(chars)
    IN  [j \in 1..k |-> <<"-", chars[j]>>]
            \o (IF k < Len(chars) THEN << <<"-">> \o Substring(chars, k) >> ELSE <<>>)

IsCluster(tok) == Len(tok) > 2 /\ tok[1] = "-" /\ tok[2] # "-"

\* C2: a token list that starts with a cluster of short flags, -abc<r> with
\* a and b value-less and c value-taking, or -xyz with all value-less, ends
\* in the same result or the same error as the list with the cluster
\* written out flag by flag (-a, -b, -c<r>).
C2_ClusterExpands ==
    [][(/\ Finishing
        /\ rawArgv # <<>>
        /\ IsCluster(rawArgv[1])
        /\ ValuelessPrefix(Substring(rawArgv[1], 1)) > 0)
             => outcome' = ParseFresh(Table, throwOnError,
                                      Expanded(rawArgv[1]) \o SubSeq(rawArgv, 2, Len(rawArgv)))]_vars

\* the parse of [-abcr] is about to return with a and b counted and r
\* collected for c
C2_Witness ==
    /\ schema = 3
    /\ pc = "build"
    /\ rawArgv = << <<"-", "a", "b", "c", "r">> >>
    /\ args[1].occurrences = 1
    /\ args[2].occurrences = 1
    /\ args[3].vals = << <<"r">> >>

----------------------------------------------------------------------------
(* C3: the tokens after "--" *)

\* tok is a value-taking flag with no value attached, which takes the next
\* token as its value: --name for a value-taking long alias, or a cluster
\* whose last character is its first value-taking short alias
TakesNext(tok) ==
    IF StartsWith(tok, DashDash)
    THEN /\ Len(tok) > 3
         /\ IndexOf(tok, "=") < 0
         /\ \E i \in 1..Len(args) : args[i].takesValue /\ Includes(args[i].flags, Substring(tok, 2))
    ELSE /\ Len(tok) > 1
         /\ tok[1] = "-"
         /\ \A k \in 2..Len(tok) :
                (\E i \in 1..Len(args) : args[i].takesValue /\ Includes(args[i].flags, <<tok[k]>>))
                    <=> k = Len(tok)

\* the raw token at index p is not the value of the flag before it
RECURSIVE FlagPosition(_, _)
FlagPosition(raw, p) ==
    p = 1 \/ ~(FlagPosition(raw, p - 1) /\ TakesNext(raw[p - 1]))

\* table entry i is the next open positional: the first positional without
\* an occurrence, or the last positional, being multi, when all have one
NextOpen(i) ==
    /\ args[i].isPositional
    /\ \A j \in 1..Len(args) : (j < i /\ args[j].isPositional) => args[j].occurrences > 0
    /\ \/ args[i].occurrences = 0
       \/ args[i].multi /\ \A j \in 1..Len(args) : args[j].isPositional => j <= i

\* the matcher is at a token that comes after the raw token at index p, the
\* tokens from p on having been copied as they are
ReadingAfter(p) == pos + 1 > Len(argv) - (Len(rawArgv) - p)

\* the step reads the raw token as it is, and either appends it to the next open positional or rejects it as an
\* unexpected value
PassedThrough ==
    LET s == argv[pos + 1]
        q == Len(rawArgv) - (Len(argv) - (pos + 1))
    IN  /\ q \in 1..Len(rawArgv)
        /\ s = rawArgv[q]
        /\ \/ /\ outcome'.status = "error"
              /\ outcome'.err.kind = "unexpected value"
              /\ outcome'.err.val = s
              /\ args' = args
           \/ /\ outcome'.status = "none"
              /\ \E i \in 1..Len(args) :
                     /\ NextOpen(i)
                     /\ args' = [args EXCEPT ![i].occurrences = @ + 1, ![i].vals = Append(@, s)]

\* C3 as stated: no token after a token equal to "--" in the raw input is
\* resolved to a flag; each is appended verbatim to the next open positional
\* or rejected as an unexpected value.
C3_AfterAnyDashDash ==
    [][(pc = "match" /\ \E p \in 1..Len(rawArgv) : rawArgv[p] = DashDash /\ ReadingAfter(p))
           => PassedThrough]_vars

\* C3 as amended: no token after a "--" that is not itself the value of the
\* value-taking flag before it is resolved to a flag; each such token the
\* matcher gets to is appended verbatim to the next open positional or
\* rejected as an unexpected value, which ends the parse.
C3_AfterSeparator ==
    [][(pc = "match" /\ \E p \in 1..Len(rawArgv) :
            rawArgv[p] = DashDash /\ FlagPosition(rawArgv, p) /\ ReadingAfter(p))
           => PassedThrough]_vars

\* the parse of [--, -x] is about to return with -x collected for the
\* positional and the flag x not counted
C3_Witness ==
    /\ schema = 4
    /\ pc = "build"
    /\ rawArgv = << DashDash, <<"-", "x">> >>
    /\ args[3].vals = << <<"-", "x">> >>
    /\ args[2].occurrences = 0

----------------------------------------------------------------------------
(* C4: conflicts *)

\* the pairs <<A, B>> of table indices where A lists B in conflicts and both
\* have been matched at least once
ConflictingPairs ==
    {p \in (1..Len(args)) \X (1..Len(args)) :
        /\ \E j \in 1..Len(args[p[1]].conflicts) : args[p[1]].conflicts[j] = args[p[2]].key
        /\ args[p[1]].occurrences > 0
        /\ args[p[2]].occurrences > 0}

\* the first of A's conflicts targets, in the order A lists them, that occurs
FirstConflict(a) ==
    LET hits == {j \in 1..Len(args[a].conflicts) :
                    \E i \in 1..Len(args) : args[i].key = args[a].conflicts[j]
                                            /\ args[i].occurrences > 0}
    IN  args[a].conflicts[CHOOSE j \in hits : \A k \in hits : j <= k]

\* C4 as stated: when A lists B in conflicts and both occur, the parse fails
\* with a conflict message.
C4_AlwaysConflictMessage ==
    (Finished /\ ConflictingPairs # {})
        => outcome.status = "error" /\ outcome.err.kind = "cannot be used together with"

\* C4 as amended: when A lists B in conflicts and both have been matched, the
\* parse never succeeds; when it fails in validation, it fails at A or at an
\* argument before A in table order, and at A with the conflict message
\* naming A and the first target of A's conflicts list that occurs.
C4_ConflictNeverPasses ==
    Finished =>
        \A p \in ConflictingPairs :
            /\ outcome.status # "ok"
            /\ FailedValidation =>
                   /\ ErrArg <= p[1]
                   /\ ErrArg = p[1] =>
                          /\ outcome.err.kind = "cannot be used together with"
                          /\ \E i \in 1..Len(args) : /\ args[i].key = FirstConflict(p[1])
                                                     /\ outcome.err.other = args[i].name

\* [-b, -a] has failed with "-a cannot be used together with -b", where a
\* lists b and b does not list a
C4_Witness ==
    /\ schema = 5
    /\ Finished
    /\ args[1].occurrences = 1 /\ args[2].occurrences = 1 /\ args[3].occurrences = 0
    /\ args[1].conflicts = <<>>
    /\ outcome.err.kind = "cannot be used together with"
    /\ outcome.err.name = args[2].name
    /\ outcome.err.other = args[1].name

----------------------------------------------------------------------------
(* C5: required values *)

\* the value-taking arguments authored required and without default that
\* have not been matched
Omitted ==
    {i \in 1..Len(args) : /\ args[i].takesValue
                          /\ Authored(i).required
                          /\ Authored(i).default = <<>>
                          /\ args[i].occurrences = 0}

\* C5 as stated: when a required value-taking argument without default does
\* not occur, the parse fails with "missing required value for" that argument.
C5_AlwaysMissingMessage ==
    (Finished /\ Omitted # {})
        => /\ outcome.status = "error"
           /\ outcome.err.kind = "missing required value for"
           /\ \E i \in Omitted : outcome.err.name = args[i].name

\* C5 as amended: when a required value-taking argument without default has
\* not been matched, the parse never succeeds; when it fails in validation,
\* it fails at that argument or at one before it in table order, and at that
\* argument with "missing required value for" its name.
C5_OmittedNeverPasses ==
    Finished =>
        \A i \in Omitted :
            /\ outcome.status # "ok"
            /\ FailedValidation =>
                   /\ ErrArg <= i
                   /\ ErrArg = i => outcome.err.kind = "missing required value for"

\* [--bump, x] has failed with "missing required value for <ver>"
C5_Witness ==
    /\ schema = 9
    /\ Finished
    /\ args[1].vals = << <<"x">> >>
    /\ 2 \in Omitted
    /\ outcome.err.kind = "missing required value for"
    /\ outcome.err.name = args[2].name

----------------------------------------------------------------------------
(* The rules of the schema, stated on the table a finished parse leaves *)

Occurs(k) == \E j \in 1..Len(args) : args[j].key = k /\ args[j].occurrences > 0

HasDefault(k) == \E j \in 1..Len(args) : args[j].key = k /\ args[j].default # <<>>

\* the values of table entry i once its default is substituted
EffectiveVals(i) ==
    IF args[i].occurrences = 0 /\ args[i].default # <<>> THEN args[i].default ELSE args[i].vals

\* an occurring argument has a conflicts target that occurs, or one that
\* names no argument of the schema
BreaksConflicts(i) ==
    /\ args[i].occurrences > 0
    /\ \E j \in 1..Len(args[i].conflicts) :
           Occurs(args[i].conflicts[j]) \/ ~HasKey(args, args[i].conflicts[j])

\* an occurring argument has a requires target, an argument of the schema,
\* that neither occurs nor has a default
BreaksRequires(i) ==
    /\ args[i].occurrences > 0
    /\ \E j \in 1..Len(args[i].requires) :
           /\ HasKey(args, args[i].requires[j])
           /\ ~Occurs(args[i].requires[j]) /\ ~HasDefault(args[i].requires[j])

BreaksOnce(i) == ~args[i].multi /\ args[i].occurrences > 1

BreaksRequired(i) ==
    /\ args[i].takesValue
    /\ Authored(i).required
    /\ Authored(i).default = <<>>
    /\ args[i].occurrences = 0

BreaksValidator(i) ==
    /\ args[i].takesValue
    /\ \E j \in 1..Len(EffectiveVals(i)) : Validate(args[i], EffectiveVals(i)[j]) # <<>>

Violates(i) ==
    BreaksConflicts(i) \/ BreaksRequires(i) \/ BreaksOnce(i) \/ BreaksRequired(i) \/ BreaksValidator(i)

\* matching has run to the end of the tokens
Matched == Finished /\ outcome.status # "help"
                    /\ ~(outcome.status = "error" /\ outcome.err.kind \in MatchingErrors)

----------------------------------------------------------------------------
(* C6: defaults *)

\* the arguments with a default that have not been matched
Defaulted == {i \in 1..Len(args) : args[i].default # <<>> /\ args[i].occurrences = 0}

DefaultValue(i) ==
    IF args[i].multi
    THEN [shape |-> "string[]", n |-> 0, vals |-> args[i].default]
    ELSE StringValue(args[i].default[1])

\* C6 as stated: when an argument with a default does not occur and no
\* other argument violates a rule, the parse succeeds and maps the argument
\* to its default, whatever the default and the validator.
C6_AnyDefaultSucceeds ==
    \A i \in Defaulted :
        (Matched /\ \A j \in 1..Len(args) : j # i => ~Violates(j))
            => outcome.status = "ok" /\ ValueOf(outcome, i) = DefaultValue(i)

\* C6 as amended: when an argument with a default has not been matched, a
\* successful parse maps it to its default (a one-element sequence when
\* multi); the parse succeeds when matching ends without help or error, no
\* other argument violates a rule and the default passes the argument's own
\* validator; a default its validator rejects fails the parse at that
\* argument with "failed to validate" naming the default.
C6_DefaultIsValidated ==
    Finished =>
        \A i \in Defaulted :
            /\ outcome.status = "ok" => ValueOf(outcome, i) = DefaultValue(i)
            /\ (Matched /\ \A j \in 1..Len(args) : ~Violates(j)) => outcome.status = "ok"
            /\ (FailedValidation /\ ErrArg = i) =>
                   /\ outcome.err.kind = "failed to validate"
                   /\ outcome.err.val = args[i].default[1]
                   /\ BreaksValidator(i)

\* [-m, x] has succeeded with lvl, authored required, mapped to its default
\* and the multi tag mapped to the one-element sequence of its default
C6_Witness ==
    /\ schema = 7
    /\ Finished
    /\ outcome.status = "ok"
    /\ Defaulted = {1, 2}
    /\ Authored(1).required
    /\ ValueOf(outcome, 1) = StringValue(<<"x">>)
    /\ ValueOf(outcome, 2) = [shape |-> "string[]", n |-> 0, vals |-> << <<"x">> >>]

----------------------------------------------------------------------------
(* C7: repeated calls of parse *)

\* C7: in throw-on-error mode every call of parse on one Command, whatever
\* calls came before it and however they ended, ends in the outcome the same
\* token list has on a freshly constructed Command.
C7_SameAsFresh ==
    [][(Finishing /\ throwOnError)
           => outcome' = ParseFresh(Table, throwOnError, rawArgv)]_vars

\* a call of parse([w]) that was not the first on its Command, and so began
\* with a reset, is about to return words = [w] and the default of sep
C7_Witness ==
    /\ schema = 6
    /\ pc = "build"
    /\ didReset
    /\ throwOnError
    /\ rawArgv = << <<"w">> >>
    /\ args[1].occurrences = 0 /\ args[1].vals = args[1].default
    /\ args[2].vals = << <<"w">> >>

----------------------------------------------------------------------------
(* C8: requires *)

\* the pairs <<A, B>> of table indices where A lists B in requires, A has
\* been matched and B has not
Unmet ==
    {p \in (1..Len(args)) \X (1..Len(args)) :
        /\ \E j \in 1..Len(args[p[1]].requires) : args[p[1]].requires[j] = args[p[2]].key
        /\ args[p[1]].occurrences > 0
        /\ args[p[2]].occurrences = 0}

\* the parse has failed with "using <A> requires <B> to be present"
RequirementError(a, b) ==
    /\ outcome.status = "error"
    /\ outcome.err.kind = "requires to be present"
    /\ outcome.err.name = args[a].name
    /\ outcome.err.other = args[b].name

\* the first target of A's requires list that has no default and no occurrence
FirstMissing(a) ==
    LET miss == {j \in 1..Len(args[a].requires) :
                    ~Occurs(args[a].requires[j]) /\ ~HasDefault(args[a].requires[j])}
    IN  args[a].requires[CHOOSE j \in miss : \A k \in miss : j <= k]

\* C8 as stated: a target with a default never gives the requirement error;
\* a target without default that does not occur always gives it.
C8_AlwaysRequirementError ==
    Finished =>
        \A p \in Unmet :
            IF args[p[2]].default # <<>>
            THEN ~RequirementError(p[1], p[2])
            ELSE outcome.status = "error" /\ outcome.err.kind = "requires to be present"

\* C8 as amended: when A lists B in requires, A has been matched and B has
\* not: if B has a default the parse never fails with the requirement error
\* for B; if B has no default the parse never succeeds, and when it fails in
\* validation it fails at A or at an argument before A in table order, and
\* at A either with A's conflict message or with the requirement error
\* naming the first target of A's requires list without default and
\* occurrence.
C8_RequirementHolds ==
    Finished =>
        \A p \in Unmet :
            IF args[p[2]].default # <<>>
            THEN ~RequirementError(p[1], p[2])
            ELSE /\ outcome.status # "ok"
                 /\ FailedValidation =>
                        /\ ErrArg <= p[1]
                        /\ ErrArg = p[1] =>
                               \/ outcome.err.kind = "cannot be used together with"
                               \/ \E i \in 1..Len(args) : /\ args[i].key = FirstMissing(p[1])
                                                          /\ RequirementError(p[1], i)

\* [-a] has failed with the requirement error for c, b with its default not
\* having been matched either
C8_Witness ==
    /\ schema = 8
    /\ Finished
    /\ Unmet = {<<1, 2>>, <<1, 3>>}
    /\ args[2].default # <<>>
    /\ RequirementError(1, 3)

----------------------------------------------------------------------------
(* C9: the shape of the result *)

\* the raw tokens are all plain words and table entry i, a multi
\* positional, is the only positional: the words are its values
WordsFor(i) ==
    /\ args[i].isPositional /\ args[i].multi
    /\ \A j \in 1..Len(args) : args[j].isPositional => j = i
    /\ \A k \in 1..Len(rawArgv) : rawArgv[k][1] # "-"

----------------------------------------------------------------------------
(* C10: a result is returned only for a table that violates no rule *)

\* a value matched for table entry i fails its validator
BreaksCollected(i) ==
    /\ args[i].takesValue
    /\ args[i].occurrences > 0
    /\ \E j \in 1..Len(args[i].vals) : Validate(args[i], args[i].vals[j]) # <<>>

\* table entry i violates one of the rules on matched tokens
ListedViolation(i) ==
    BreaksConflicts(i) \/ BreaksRequires(i) \/ BreaksOnce(i) \/ BreaksRequired(i) \/ BreaksCollected(i)

\* parse has thrown
Thrown == outcome.status = "error" /\ pc = "ready" /\ outcome.result = <<>>

\* C10 as stated: in throw-on-error mode a result is returned only when no
\* argument violates a rule, and on any violation parse throws and returns
\* nothing.
C10_ViolationAlwaysThrows ==
    (Finished /\ throwOnError) =>
        /\ outcome.status = "ok" => \A i \in 1..Len(args) : ~Violates(i)
        /\ (\E i \in 1..Len(args) : ListedViolation(i)) => Thrown

\* C10 as amended: in throw-on-error mode a result is returned only when no
\* argument violates a rule (no conflict, no unmet requirement without
\* default, no repeated non-multi argument, no omitted required value, no
\* value its validator rejects); on any violation no result is returned:
\* parse throws, unless the help flag was reached in matching, in which case
\* help is printed and the process exits with status 0.
C10_ReturnsOnlyValid ==
    (Finished /\ throwOnError) =>
        /\ outcome.status = "ok" => \A i \in 1..Len(args) : ~Violates(i)
        /\ (\E i \in 1..Len(args) : ListedViolation(i)) =>
               /\ outcome.result = <<>>
               /\ outcome.status # "help" => Thrown
               /\ outcome.status = "help" => pc = "exited" /\ outcome.exit = 0

\* in throw-on-error mode parse([-bX, 1]) has returned bump = X, accepted
\* ignoring case, and ver = 1, accepted by validate
C10_Witness ==
    /\ schema = 9
    /\ Finished
    /\ throwOnError
    /\ outcome.status = "ok"
    /\ args[1].vals = << <<"X">> >>
    /\ args[2].vals = << <<"1">> >>

----------------------------------------------------------------------------
(* C11: the order of positionals *)

\* the schema the Command is constructed with
Raw == Cases[schema].args

PositionalsMessage == "positionals with multiple values are only allowed as the last positional"

\* some multi positional is followed, in authoring order, by another positional
MultiFollowed(raw) ==
    \E i, j \in 1..Len(raw) :
        i < j /\ raw[i].flags = <<>> /\ raw[i].multi /\ raw[j].flags = <<>>

\* nothing else of the schema is checked: no cross-reference and no alias
\* made of hyphens only
OnlyOrderChecked(raw) ==
    \A i \in 1..Len(raw) :
        /\ raw[i].conflicts = <<>> /\ raw[i].requires = <<>>
        /\ \A f \in 1..Len(raw[i].flags) : \E c \in 1..Len(raw[i].flags[f]) : raw[i].flags[f][c] # "-"

\* C11: the constructor fails for the order of positionals exactly when a
\* multi positional is followed by another positional: such a schema never
\* constructs, no other schema gets the message, and a schema with nothing
\* else to check fails if and only if it has such a positional.
C11_MultiPositionalLast ==
    pc # "new" =>
        /\ MultiFollowed(Raw) => pc = "schemaError"
        /\ outcome.err.kind = PositionalsMessage => MultiFollowed(Raw) /\ pc = "schemaError"
        /\ OnlyOrderChecked(Raw) =>
               /\ pc = "schemaError" <=> MultiFollowed(Raw)
               /\ pc = "schemaError" => outcome.err.kind = PositionalsMessage

\* a multi positional, a flag and then a positional: the constructor has thrown
C11_Witness ==
    /\ pc = "schemaError"
    /\ outcome.err.kind = PositionalsMessage
    /\ Len(Raw) = 3
    /\ Raw[1].flags = <<>> /\ Raw[1].multi
    /\ Raw[2].flags # <<>>
    /\ Raw[3].flags = <<>> /\ ~Raw[3].multi

----------------------------------------------------------------------------
(* C12: empty aliases *)

\* the alias is empty once its leading hyphens are stripped
EmptyAlias(f) == \A c \in 1..Len(f) : f[c] = "-"

\* C12: the constructor fails whenever some alias of some argument is empty
\* after its leading hyphens are stripped, also when the argument has other
\* aliases that are not empty.
C12_EmptyAliasRejected ==
    (pc # "new" /\ \E i \in 1..Len(Raw) : \E f \in 1..Len(Raw[i].flags) : EmptyAlias(Raw[i].flags[f]))
        => pc = "schemaError"
----------------------------------------------------------------------------
(* C13: cross-references *)

\* the keys table entry i of the schema lists in conflicts and in requires
Referenced(raw, i) ==
    {raw[i].conflicts[j] : j \in 1..Len(raw[i].conflicts)}
        \cup {raw[i].requires[j] : j \in 1..Len(raw[i].requires)}

\* C13: the constructor fails, and leaves no Command, whenever an argument
\* lists in conflicts or in requires its own key or a key that is not in the
\* schema.
C13_BadReferenceRejected ==
    (pc # "new" /\ \E i \in 1..Len(Raw) : \E k \in Referenced(Raw, i) :
                       k = Raw[i].key \/ ~HasKey(Raw, k))
        => pc = "schemaError" /\ args = <<>>

----------------------------------------------------------------------------
(* C14: -h and --help *)

\* the table entries that declare the alias a help token spells
Declaring(tok) == {i \in 1..Len(args) : Includes(args[i].flags, StripHyphens(tok))}

\* the matching step counts an occurrence of table entry i for the token it
\* reads and, if i takes a value, takes the next token as the value
MatchedTo(i) ==
    IF ~args[i].takesValue
    THEN outcome'.status = "none" /\ args' = [args EXCEPT ![i].occurrences = @ + 1]
    ELSE IF pos + 2 <= Len(argv)
    THEN /\ outcome'.status = "none"
         /\ args' = [args EXCEPT ![i].occurrences = @ + 1, ![i].vals = Append(@, argv[pos + 2])]
    ELSE /\ outcome'.status = "error"
         /\ outcome'.err.kind = "requires a value but none was supplied"
         /\ outcome'.err.name = args[i].name

\* C14: a token -h (--help) the matcher reads in flag position prints help
\* and exits with status 0, whatever the table holds by then, if and only if
\* no argument declares the alias h (help); otherwise the token is matched
\* to the first argument that declares it and no help is produced.
C14_HelpUnlessDeclared ==
    [][(pc = "match" /\ ~passthru /\ argv[pos + 1] \in {HelpShort, HelpLong})
           => IF Declaring(argv[pos + 1]) = {}
              THEN /\ outcome'.status = "help" /\ outcome'.exit = 0 /\ pc' = "exited"
                   /\ args' = args
              ELSE /\ outcome'.status # "help"
                   /\ \E i \in Declaring(argv[pos + 1]) :
                          /\ \A j \in Declaring(argv[pos + 1]) : i <= j
                          /\ MatchedTo(i)]_vars

\* parse([-h, w, --help]) on a schema that declares h for a value-taking
\* flag: w is the flag's value, and --help, which nothing declares, has
\* printed help
C14_Witness ==
    /\ schema = 13
    /\ outcome.status = "help"
    /\ pc = "exited"
    /\ args[1].occurrences = 1
    /\ args[1].vals = << w >>

----------------------------------------------------------------------------
(* C15: possible *)

\* the strings a and b are equal up to the case of their letters
SameIgnoringCase(a, b) ==
    /\ Len(a) = Len(b)
    /\ \A k \in 1..Len(a) : a[k] = b[k] \/ UpperChar(a[k]) = b[k] \/ a[k] = UpperChar(b[k])

\* the value is an element of the possible list of table entry i
InPossible(i, val) ==
    \E k \in 1..Len(args[i].possible) :
        IF args[i].ignoreCase THEN SameIgnoringCase(val, args[i].possible[k])
        ELSE val = args[i].possible[k]

\* the values of table entry i, its default included, that are not possible
NotPossible(i) == {j \in 1..Len(EffectiveVals(i)) : ~InPossible(i, EffectiveVals(i)[j])}

\* every raw token is a short alias of table entry i with the value attached
AllAttached(i) ==
    \A k \in 1..Len(rawArgv) :
        /\ Len(rawArgv[k]) > 2
        /\ rawArgv[k][1] = "-"
        /\ Includes(args[i].flags, <<rawArgv[k][2]>>)
        /\ rawArgv[k][3] # "="

\* C15: for an argument with a non-empty possible list, validation of the
\* argument fails with "failed to validate", naming the first such value,
\* exactly when one of its values, the default included, is not an element
\* of possible (up to case when ignoreCase is set) and no earlier rule of the
\* argument is broken, whatever the caller's validate accepts; so a result is
\* returned only when every value is possible, and it holds the values as
\* they were typed.
C15_PossibleDecides ==
    [][/\ (pc = "validate" /\ args[vi].possible # <<>>) =>
             /\ (outcome'.status = "error" /\ outcome'.err.kind = "failed to validate")
                    <=> /\ NotPossible(vi) # {}
                        /\ ~BreaksConflicts(vi) /\ ~BreaksRequires(vi)
                        /\ ~BreaksOnce(vi) /\ ~BreaksRequired(vi)
             /\ (outcome'.status = "error" /\ outcome'.err.kind = "failed to validate") =>
                    \E j \in NotPossible(vi) :
                        /\ \A k \in NotPossible(vi) : j <= k
                        /\ outcome'.err.val = EffectiveVals(vi)[j]
       /\ pc = "build" =>
             \A i \in 1..Len(args) :
                 args[i].possible # <<>> =>
                     /\ \A j \in 1..Len(args[i].vals) : InPossible(i, args[i].vals[j])
                     /\ Len(args[i].vals) > 0 =>
                            ValueOf(outcome', i).vals[1] = args[i].vals[1]
                     /\ (args[i].multi /\ AllAttached(i)) =>
                            ValueOf(outcome', i).vals =
                                [k \in 1..Len(rawArgv) |-> Substring(rawArgv[k], 2)]]_vars

\* parse([-lY, -lx]) has returned lvl = [Y, x], both possible, the caller's
\* validate accepting neither
C15_Witness ==
    /\ schema = 15
    /\ Finished
    /\ outcome.status = "ok"
    /\ args[1].validate.kind = "possible"
    /\ Authored(1).validate = << {v} >>
    /\ ValueOf(outcome, 1).vals = << <<"Y">>, x >>

----------------------------------------------------------------------------
(* C16: the canonical token stream *)

\* a token not starting with "-", the token "-", a two-character token -x,
\* or a token --name without "="
Canonical(t) ==
    \/ t = <<>>
    \/ t[1] # "-"
    \/ Len(t) <= 2
    \/ StartsWith(t, DashDash) /\ IndexOf(t, "=") < 0

\* the table entries a flag token names
Named(tok) ==
    IF tok = DashDash \/ ~StartsWith(tok, <<"-">>) \/ Len(tok) < 2 THEN {}
    ELSE IF StartsWith(tok, DashDash)
    THEN IF Len(tok) = 3 THEN {}
         ELSE {i \in 1..Len(args) : Includes(args[i].flags, Substring(tok, 2))}
    ELSE {i \in 1..Len(args) : Includes(args[i].flags, Substring(tok, 1))}

\* no alias is declared by two arguments
DistinctAliases ==
    \A i, j \in 1..Len(args) :
        i # j => \A f \in 1..Len(args[i].flags) : ~Includes(args[j].flags, args[i].flags[f])

\* the token the matcher is at is the text after the "=" of a raw token
\* --name=text, where name is a flag that takes no value
AfterEquals ==
    /\ pos >= 1
    /\ StartsWith(argv[pos], DashDash)
    /\ \E i \in Named(argv[pos]) : ~args[i].takesValue
    /\ \E k \in 1..Len(rawArgv) : rawArgv[k] = argv[pos] \o <<"=">> \o argv[pos + 1]

----------------------------------------------------------------------------
(* C17: positionals *)

\* the token the matcher is at is neither a flag nor a flag's value: it
\* comes after the separator, or it does not start with "-"
AtPlainToken ==
    /\ pc = "match"
    /\ passthru \/ argv[pos + 1] = <<>> \/ argv[pos + 1][1] # "-"

\* the table indices of the positionals, in authoring order
RECURSIVE PositionalsFrom(_)
PositionalsFrom(i) ==
    IF i > Len(args) THEN <<>>
    ELSE (IF args[i].isPositional THEN <<i>> ELSE <<>>) \o PositionalsFrom(i + 1)

\* no raw token starts with "-"
OnlyPlain == \A k \in 1..Len(rawArgv) : rawArgv[k] = <<>> \/ rawArgv[k][1] # "-"

----------------------------------------------------------------------------
(* C18: tokens that resolve to nothing *)

\* the token starts with "--" and is longer than 2 characters, or starts
\* with "-" and is longer than 1 character
FlagShaped(tok) ==
    \/ StartsWith(tok, DashDash) /\ Len(tok) > 2
    \/ StartsWith(tok, <<"-">>) /\ Len(tok) > 1

\* the matcher is at a token, not the separator and not a help token, that
\* resolves to no argument
AtUnresolved ==
    /\ pc = "match"
    /\ ~passthru
    /\ argv[pos + 1] \notin {DashDash, HelpShort, HelpLong}
    /\ IF FlagShaped(argv[pos + 1]) THEN Named(argv[pos + 1]) = {}
       ELSE ~\E i \in 1..Len(args) : NextOpen(i)

\* C18: a token that resolves to nothing fails the parse with "unknown
\* option" exactly when it is flag-shaped and with "unexpected value" and
\* the token otherwise, the token "-" included; after "--" a token without
\* an open positional always fails with "unexpected value".
C18_UnknownOrUnexpected ==
    [][/\ AtUnresolved =>
             /\ outcome'.status = "error"
             /\ outcome'.err.val = argv[pos + 1]
             /\ outcome'.err.kind = IF FlagShaped(argv[pos + 1]) THEN "unknown option"
                                    ELSE "unexpected value"
       /\ (pc = "match" /\ passthru /\ ~\E i \in 1..Len(args) : NextOpen(i)) =>
             /\ outcome'.status = "error"
             /\ outcome'.err.val = argv[pos + 1]
             /\ outcome'.err.kind = "unexpected value"]_vars

----------------------------------------------------------------------------
(* C19: a flag that takes a value and is the last token *)

\* the matcher is at a token that names the flag at table entry i, which
\* takes a value
AtValueFlag(i) ==
    /\ pc = "match"
    /\ ~passthru
    /\ i \in Named(argv[pos + 1])
    /\ \A j \in Named(argv[pos + 1]) : i <= j
    /\ args[i].takesValue
    /\ ~args[i].isPositional

\* C19: a matched flag that takes a value and has no token after it in the
\* canonical stream fails the parse with "the argument <name> requires a
\* value but none was supplied" and its value list stays as it was; with a
\* token after it, that token is consumed and appended; and the value list
\* of a flag never grows in the matching loop except by the token consumed
\* for it.
C19_ValueRequired ==
    [][pc = "match" =>
          \A i \in 1..Len(args) :
              /\ AtValueFlag(i) =>
                    IF pos + 1 = Len(argv)
                    THEN /\ outcome'.status = "error"
                         /\ outcome'.err.kind = "requires a value but none was supplied"
                         /\ outcome'.err.name = args[i].name
                         /\ args'[i].vals = args[i].vals
                    ELSE /\ outcome'.status = "none"
                         /\ args'[i].vals = Append(args[i].vals, argv[pos + 2])
                         /\ pos' = pos + 2
              /\ (~args[i].isPositional /\ args'[i].vals # args[i].vals) =>
                    /\ AtValueFlag(i)
                    /\ pos + 2 <= Len(argv)
                    /\ pos' = pos + 2
                    /\ args'[i].vals = Append(args[i].vals, argv[pos + 2])]_vars

\* the matcher is at the last canonical token, a flag that takes a value,
\* which comes from a cluster of short flags that ends the raw token list
C19_Witness ==
    /\ \E i \in 1..Len(args) : AtValueFlag(i)
    /\ pos + 1 = Len(argv)
    /\ Len(rawArgv[Len(rawArgv)]) > 2
    /\ ~StartsWith(rawArgv[Len(rawArgv)], DashDash)

----------------------------------------------------------------------------
(* C20: occurrences and the cardinality check *)

\* the token names a flag that takes the token after it as its value
ValueTaker(tok) ==
    \E i \in Named(tok) :
        /\ \A j \in Named(tok) : i <= j
        /\ args[i].takesValue /\ ~args[i].isPositional

\* the matcher reads the canonical token at index p as a flag or a word: it
\* is before the separator and is not the value of the flag before it
RECURSIVE ReadAsFlag(_)
ReadAsFlag(p) ==
    \/ p = 1
    \/ p >= 2 /\ ReadAsFlag(p - 1) /\ argv[p - 1] # DashDash /\ ~ValueTaker(argv[p - 1])
    \/ p >= 3 /\ ReadAsFlag(p - 2) /\ ValueTaker(argv[p - 2])

\* how many of the canonical tokens read so far name table entry i, through
\* any of its aliases
MatchCount(i) ==
    Cardinality({p \in 1..pos : /\ ReadAsFlag(p)
                                /\ i \in Named(argv[p])
                                /\ \A j \in Named(argv[p]) : i <= j})

\* table entry i is a flag without multi that has been matched twice or more
Repeated(i) == ~args[i].isPositional /\ ~args[i].multi /\ MatchCount(i) > 1

\* validation reaches the cardinality check of table entry i: no argument
\* before i violates a rule and i passes its conflicts and requires
ReachesOnce(i) ==
    /\ pc = "validate"
    /\ \A j \in 1..(i - 1) : ~Violates(j)
    /\ ~BreaksConflicts(i) /\ ~BreaksRequires(i)

\* the step ends the parse call
Ending == pc \in {"match", "validate", "build"} /\ outcome'.status # "none"

\* a multi argument is never reported by the cardinality check, and one
\* that takes no value is returned as the number of its matches
MultiCounts ==
    /\ (Ending /\ outcome'.status = "error"
               /\ outcome'.err.kind = "can be specified only once") =>
           \E i \in 1..Len(args) : outcome'.err.name = args[i].name /\ Repeated(i)
    /\ pc = "build" =>
           \A i \in 1..Len(args) :
               (args[i].multi /\ ~args[i].takesValue) =>
                   /\ ValueOf(outcome', i).shape = "number"
                   /\ ValueOf(outcome', i).n = MatchCount(i)

\* C20 as stated: whenever a flag without multi has been matched more than
\* once, through one alias or several, the parse fails, with "<name> can be
\* specified only once" when no earlier violation exists; a multi argument
\* matched n times never fails this check and, taking no value, yields n.
C20_RepeatAlwaysFails ==
    [][/\ Ending =>
              \A i \in 1..Len(args) :
                  Repeated(i) =>
                      /\ outcome'.status = "error"
                      /\ ReachesOnce(i) =>
                             /\ outcome'.err.kind = "can be specified only once"
                             /\ outcome'.err.name = args[i].name
       /\ MultiCounts]_vars

\* C20: whenever a flag without multi has been matched more than once,
\* through one alias or several, the parse returns no result: it ends with
\* help if a help token is read afterwards, and fails otherwise, with
\* "<name> can be specified only once" when validation reaches the check
\* without an earlier violation; a multi argument matched n times never
\* fails this check and, taking no value, yields n.
C20_RepeatNeverPasses ==
    [][/\ Ending =>
              \A i \in 1..Len(args) :
                  Repeated(i) =>
                      /\ IF pc = "match" /\ argv[pos + 1] \in {HelpShort, HelpLong}
                                         /\ Named(argv[pos + 1]) = {}
                         THEN outcome'.status = "help"
                         ELSE outcome'.status = "error"
                      /\ ReachesOnce(i) =>
                             /\ outcome'.err.kind = "can be specified only once"
                             /\ outcome'.err.name = args[i].name
       /\ MultiCounts]_vars

\* validation is at a flag without multi that was matched through its long
\* and its short alias, no earlier violation existing
C20_Witness ==
    /\ pc = "validate"
    /\ \E i \in 1..Len(args) :
           /\ vi = i
           /\ Repeated(i)
           /\ ReachesOnce(i)
           /\ \E p, q \in 1..pos :
                  /\ ReadAsFlag(p) /\ ReadAsFlag(q)
                  /\ Named(argv[p]) = {i} /\ Named(argv[q]) = {i}
                  /\ argv[p] # argv[q]

----------------------------------------------------------------------------
(* C21: which error a failing parse reports *)

\* the first argument in authoring order that violates a rule
FirstViolator == CHOOSE i \in 1..Len(args) : Violates(i) /\ \A j \in 1..(i - 1) : ~Violates(j)

\* the first target of the conflicts list of table entry i that occurs or
\* names no argument
FirstClash(i) ==
    LET hits == {j \in 1..Len(args[i].conflicts) :
                    Occurs(args[i].conflicts[j]) \/ ~HasKey(args, args[i].conflicts[j])}
    IN  args[i].conflicts[CHOOSE j \in hits : \A k \in hits : j <= k]

\* the first target of the requires list of table entry i, an argument of
\* the schema, that neither occurs nor has a default
FirstUnmet(i) ==
    LET miss == {j \in 1..Len(args[i].requires) :
                    /\ HasKey(args, args[i].requires[j])
                    /\ ~Occurs(args[i].requires[j]) /\ ~HasDefault(args[i].requires[j])}
    IN  args[i].requires[CHOOSE j \in miss : \A k \in miss : j <= k]

\* the first value of table entry i, in supply order, its validator rejects
FirstRejected(i) ==
    LET bad == {j \in 1..Len(EffectiveVals(i)) : Validate(args[i], EffectiveVals(i)[j]) # <<>>}
    IN  EffectiveVals(i)[CHOOSE j \in bad : \A k \in bad : j <= k]

NameOfKey(k) == args[CHOOSE j \in 1..Len(args) : args[j].key = k].name

\* the error err is the one of the first rule table entry i violates, in
\* the order conflict, requirement, cardinality, missing required value,
\* validation of the values
ReportsFirstRule(err, i) ==
    /\ err.name = args[i].name
    /\ IF BreaksConflicts(i)
       THEN IF HasKey(args, FirstClash(i))
            THEN err.kind = "cannot be used together with" /\ err.other = NameOfKey(FirstClash(i))
            ELSE err.kind = "TypeError"
       ELSE IF BreaksRequires(i)
       THEN err.kind = "requires to be present" /\ err.other = NameOfKey(FirstUnmet(i))
       ELSE IF BreaksOnce(i)
       THEN err.kind = "can be specified only once"
       ELSE IF BreaksRequired(i)
       THEN err.kind = "missing required value for"
       ELSE err.kind = "failed to validate" /\ err.val = FirstRejected(i)

\* C21: a failing parse reports one error.  A parse that fails in the
\* matching loop reports a matching error, whatever rules the table breaks
\* by then; a parse that fails in the validation loop reports the first
\* rule, in the order conflict, requirement, cardinality, missing required
\* value, validation of the values in supply order, that the first
\* violating argument in authoring order breaks; a parse that returns breaks
\* none; and an argument that takes no value is never reported as missing
\* or as failing validation and never receives a value in validation.
C21_FirstErrorInOrder ==
    [][/\ (Ending /\ outcome'.status = "error") =>
              IF pc = "match"
              THEN outcome'.err.kind \in MatchingErrors
              ELSE /\ pc = "validate"
                   /\ \E i \in 1..Len(args) : Violates(i)
                   /\ ReportsFirstRule(outcome'.err, FirstViolator)
       /\ (Ending /\ outcome'.status = "ok") => \A i \in 1..Len(args) : ~Violates(i)
       /\ pc = "validate" =>
              \A i \in 1..Len(args) :
                  ~args[i].takesValue =>
                      /\ args'[i].vals = <<>>
                      /\ (outcome'.status = "error"
                            /\ outcome'.err.kind \in {"missing required value for",
                                                      "failed to validate"})
                           => outcome'.err.name # args[i].name]_vars

\* validation runs on a table whose first argument, a flag that takes no
\* value and is authored as required, violates nothing, and whose first
\* violating argument breaks its requirement, the cardinality rule and its
\* validator at once
C21_Witness ==
    /\ schema = 19
    /\ pc = "validate"
    /\ ~args[1].takesValue /\ Authored(1).required
    /\ \E i \in 2..Len(args) :
           /\ BreaksRequires(i) /\ BreaksOnce(i) /\ BreaksValidator(i)
           /\ \A j \in 1..(i - 1) : ~Violates(j)

----------------------------------------------------------------------------
(* C22: a value attached with "=" to a flag that takes no value *)

Equals == <<"-", "=">>

\* the canonical token at index p is a short flag that takes no value, the
\* next token is -=, and a raw token holds the flag's character followed
\* by "=" and text: the flag was spelled -f=v
ShortAttached(p) ==
    /\ p >= 1 /\ p + 1 <= Len(argv)
    /\ Len(argv[p]) = 2 /\ argv[p][1] = "-" /\ argv[p] # DashDash
    /\ \E i \in Named(argv[p]) : ~args[i].takesValue
    /\ argv[p + 1] = Equals
    /\ \E k \in 1..Len(rawArgv) :
           /\ Len(rawArgv[k]) >= 4
           /\ ~StartsWith(rawArgv[k], DashDash)
           /\ \E c \in 2..(Len(rawArgv[k]) - 2) :
                  rawArgv[k][c] = argv[p][2] /\ rawArgv[k][c + 1] = "="

\* the canonical token at index p is a long flag that takes no value and
\* the raw token it comes from is --flag=v, v being the next canonical token
LongAttached(p) ==
    /\ p >= 1 /\ p + 1 <= Len(argv)
    /\ StartsWith(argv[p], DashDash) /\ Len(argv[p]) > 3
    /\ \E i \in Named(argv[p]) : ~args[i].takesValue
    /\ argv[p + 1] # <<>>
    /\ \E k \in 1..Len(rawArgv) : rawArgv[k] = argv[p] \o <<"=">> \o argv[p + 1]

\* the matcher has read a flag that takes no value and is at what "=" has
\* attached to it
AtAttached == pc = "match" /\ ~passthru /\ (ShortAttached(pos) \/ LongAttached(pos))

FirstNamed(tok) == CHOOSE i \in Named(tok) : \A j \in Named(tok) : i <= j

\* C22 as stated: a value attached with "=" to a flag that takes no value,
\* -f=v or --flag=v, makes the parse fail; the attached text is never
\* accepted as a positional value or as other flags.
C22_AttachedAlwaysFails ==
    [][AtAttached => outcome'.status = "error"]_vars

\* C22: with no argument declaring the alias "=", the spelling -f=v of a
\* flag that takes no value fails the parse with "unknown option" for -=
\* once the matcher has read the flag; with such an argument, -= is matched
\* to it.  The spelling --flag=v is split into --flag and v, and v is read
\* as any token: a word goes to the next open positional, or fails with
\* "unexpected value" when there is none, and a token that names a flag is
\* matched to that flag.
C22_AttachedReadAsToken ==
    [][/\ (pc = "match" /\ ~passthru /\ ShortAttached(pos)) =>
              IF Named(Equals) = {}
              THEN /\ outcome'.status = "error"
                   /\ outcome'.err.kind = "unknown option"
                   /\ outcome'.err.val = Equals
              ELSE MatchedTo(FirstNamed(Equals))
       /\ (pc = "match" /\ ~passthru /\ LongAttached(pos)) =>
              LET text == argv[pos + 1] IN
              IF text[1] # "-"
              THEN IF \E i \in 1..Len(args) : NextOpen(i)
                   THEN /\ outcome'.status = "none"
                        /\ \E i \in 1..Len(args) :
                               /\ NextOpen(i)
                               /\ args' = [args EXCEPT ![i].occurrences = @ + 1,
                                                       ![i].vals = Append(@, text)]
                   ELSE /\ outcome'.status = "error"
                        /\ outcome'.err.kind = "unexpected value"
                        /\ outcome'.err.val = text
              ELSE Named(text) # {} => MatchedTo(FirstNamed(text))]_vars

\* the matcher has read -f of the raw token -f=w and is at -=
C22_Witness ==
    /\ pc = "match" /\ ~passthru
    /\ ShortAttached(pos)
    /\ Named(Equals) = {}
    /\ rawArgv = << <<"-", "f", "=", "w">> >>

----------------------------------------------------------------------------
(* C23: values and occurrences *)

\* every argument that takes a value has as many values as occurrences and
\* every argument that takes none has no value
Balanced ==
    \A i \in 1..Len(args) :
        IF args[i].takesValue THEN Len(args[i].vals) = args[i].occurrences
        ELSE args[i].vals = <<>>

\* C23: after every step that leaves the matcher in the matching loop, and
\* after the step that takes it to validation, every value-taking argument
\* has as many values as occurrences and every other argument has none;
\* from then on the only change to the table is the substitution of the
\* default for the values of an argument with zero occurrences, whose
\* occurrences stay 0.
C23_ValuesMatchOccurrences ==
    [][/\ (pc \in {"ready", "match"} /\ pc' \in {"match", "validate"}) => Balanced'
       /\ pc \in {"validate", "build"} =>
              \A i \in 1..Len(args) :
                  \/ args'[i] = args[i]
                  \/ /\ args[i].occurrences = 0
                     /\ args[i].default # <<>>
                     /\ args[i].vals = <<>>
                     /\ args'[i] = [args[i] EXCEPT !.vals = <<args[i].default[1]>>]]_vars

\* validation has substituted the default of the first argument, which
\* does not occur, and the second holds the two values of its two
\* occurrences
C23_Witness ==
    /\ pc \in {"validate", "build"}
    /\ Len(args) >= 2
    /\ args[1].occurrences = 0 /\ args[1].default # <<>> /\ args[1].vals = args[1].default
    /\ args[2].occurrences = 2 /\ Len(args[2].vals) = 2

----------------------------------------------------------------------------
(* C24: positionals that are not multi *)

\* the matcher is at a token it reads as a positional value: a token after
\* the separator, a token that does not start with "-", or the token "-"
AtPositionalToken ==
    \/ AtPlainToken
    \/ pc = "match" /\ ~passthru /\ argv[pos + 1] = <<"-">>

\* C24: a positional that is not multi never has more than one occurrence
\* or more than one value; a token read as a positional value when no
\* positional is open fails the parse with "unexpected value"; and "can be
\* specified only once" is never reported for a positional.
C24_SinglePositional ==
    [][/\ \A i \in 1..Len(args') :
              (args'[i].isPositional /\ ~args'[i].multi) =>
                  args'[i].occurrences <= 1 /\ Len(args'[i].vals) <= 1
       /\ (AtPositionalToken /\ ~\E i \in 1..Len(args) : NextOpen(i)) =>
              /\ outcome'.status = "error"
              /\ outcome'.err.kind = "unexpected value"
              /\ outcome'.err.val = argv[pos + 1]
       /\ (outcome'.status = "error" /\ outcome'.err.kind = "can be specified only once") =>
              \A i \in 1..Len(args') :
                  args'[i].isPositional => args'[i].name # outcome'.err.name]_vars

====
